---- MODULE Spec2Model ----
(***************************************************************************)
(* Model of the fake clock of package clockwork: the clock state           *)
(* (fakeClockInner: time, waiters, blockers), the timers and tickers       *)
(* registered in it, and the callers of BlockUntilContext.                 *)
(*                                                                         *)
(* Every method of FakeClock, fakeTimer and fakeTicker runs its body       *)
(* inside fc.inner.With, i.e. under the write lock of RWMtx, so each is    *)
(* one atomic action here.  BlockUntilContextNotify is the one operation   *)
(* with a suspension point outside the lock (its select); it is split in   *)
(* a registration step and a return step.                                  *)
(*                                                                         *)
(* Virtual time is an integer number of time units since the instant the   *)
(* clock was constructed at.                                               *)
(***************************************************************************)
EXTENDS Integers, Sequences, FiniteSets, TLC

\* ---------------------------------------------------------------- bounds
\* Virtual time stops at MaxTime, and no duration is longer than that.
MaxTime == 3
MaxDur == MaxTime

\* fakeTicker.Reset can add waiters without end: a clock with the expirers
\* S is followed while its queue holds at most one entry more than there
\* are expirers.
MaxQueue(S) == Cardinality(S) + 1

\* ------------------------------------------------------ program constants
\* make(chan time.Time, 1): the buffer of a timer's or ticker's channel.
ChanCap == 1

\* The expirers (pointers to fakeTimer and fakeTicker objects) the
\* environment can construct; which of the two an expirer is, is settled
\* when it is constructed.
Ids == {1, 2, 3}

\* The blocker objects that can be allocated, and the goroutines that call
\* BlockUntilContext.
BlockerIds == {1, 2}
Callers == {1}

\* Durations handed to NewTimer, NewTicker, Reset (zero and negative ones
\* included) and to Advance (non-negative), and thresholds of BlockUntil.
Durs == (0 - 1) .. MaxDur
AdvDurs == 0 .. MaxDur
Counts == 0 .. Cardinality(Ids)

VARIABLES
  time,      \* fakeClockInner.time
  waiters,   \* fakeClockInner.waiters: sequence of expirer pointers
  blockers,  \* fakeClockInner.blockers: sequence of blocker pointers
  kind,      \* "timer", "func" (a timer with an afterFunc), "ticker", or "none"
  exp,       \* fakeTimer.exp / fakeTicker.exp
  tickerD,   \* fakeTicker.d
  c,         \* fakeTimer.c / fakeTicker.c: the buffered channel's contents
  bcount,    \* blocker.count
  closed,    \* blocker.ch: how many times close(b.ch) ran on it
  pc,        \* position of each caller of BlockUntilContextNotify
  want,      \* the n of the caller's call in progress
  blk,       \* the b of the caller's call in progress (0 is nil)
  ctxDone,   \* whether the caller's ctx is cancelled
  err,       \* what the caller's last call returned
  stopped,   \* the value the last operation returned, if a Stop or Timer.Reset
  fired,     \* how many times the last operation invoked expire()
  lastFire,  \* the instant the latest expire() was invoked with
  reg,       \* registration order of the waiters of one instant
  pure,      \* ticker: created and never reset or stopped since
  reached,   \* caller: the queue length was >= n at or since the latest call
  panicked,  \* whether the last operation panicked
  started,   \* the goroutines started by "go f.afterFunc()" that have not run
  op,        \* the ...Notify operation of the caller's latest call
  sig,       \* how many times close(ch) ran on the ch of that call
  tmr,       \* the timer that call made (0 if none)
  dueAt      \* the instant that timer was set to expire at

vars == <<time, waiters, blockers, kind, exp, tickerD, c, bcount, closed, pc,
          want, blk, ctxDone, err, stopped, fired, lastFire, reg, pure,
          reached, panicked, started, op, sig, tmr, dueAt>>

\* ------------------------------------------------------------ helpers
Range(s) == {s[i] : i \in 1 .. Len(s)}

\* slices.Insert(s, idx, e) with a 0-based idx.
Insert(s, idx, e) == SubSeq(s, 1, idx) \o <<e>> \o SubSeq(s, idx + 1, Len(s))

\* slices.Delete(s, idx, idx+1) with a 0-based idx.
Delete(s, idx) == SubSeq(s, 1, idx) \o SubSeq(s, idx + 2, Len(s))

\* slices.Index(s, e): 0-based index of the first occurrence, or -1.
Index(s, e) ==
  IF e \in Range(s)
  THEN (CHOOSE i \in 1 .. Len(s) : s[i] = e /\ \A j \in 1 .. (i - 1) : s[j] # e) - 1
  ELSE 0 - 1

\* The clock state an operation works on while it holds the lock, with the
\* fields of the expirers and blockers it can reach from there.
Inner ==
  [time |-> time, waiters |-> waiters, blockers |-> blockers, kind |-> kind,
   exp |-> exp, d |-> tickerD, c |-> c, closed |-> closed, reg |-> reg,
   log |-> <<>>, started |-> started, target |-> time]

\* The largest registration number handed out so far in st.
MaxReg(st) ==
  LET used == {st.reg[e] : e \in Ids} \cup {st.log[i].reg : i \in 1 .. Len(st.log)}
  IN  CHOOSE m \in used \cup {0} : \A u \in used : u <= m

\* Registration numbers renumbered from 1 in the same order among the
\* waiters of one instant, 0 for an expirer that is not in the queue.
Normalise(st) ==
  [e \in Ids |->
     IF e \in Range(st.waiters)
     THEN Cardinality({f \in Range(st.waiters) :
                         st.exp[f] = st.exp[e] /\ st.reg[f] < st.reg[e]}) + 1
     ELSE 0]

\* exp is "only meaningful if the timer is currently one of a FakeClock's
\* waiters": it is kept for the waiters and cleared for the others.
Meaningful(st) ==
  [e \in Ids |-> IF e \in Range(st.waiters) THEN st.exp[e] ELSE 0]

\* d matters only when the ticker expires, which takes a waiter, and Reset
\* sets it before it makes the ticker one: it is kept for the waiters and
\* cleared for the others.
MeaningfulD(st) ==
  [e \in Ids |-> IF e \in Range(st.waiters) THEN st.d[e] ELSE 0]

\* How many expire() invocations of expirer e the log holds.
Fires(lg, e) == Cardinality({i \in 1 .. Len(lg) : lg[i].e = e})

\* ------------------------------------------------------------ expirers
\* A send that keeps the new value and drops the one the channel holds.
TrySendOverwrite(buf, now) == <<now>>

\* select { case f.c <- now: default: } on a channel of capacity ChanCap.
TrySend(buf, now) == IF Len(buf) < ChanCap THEN Append(buf, now) ELSE buf

\* fakeTimer.expire: with an afterFunc, starts it in a goroutine of its own
\* (recorded with the instant it was started at and the instant the running
\* operation ends at); without, sends now without blocking.  The next
\* duration is nil.
fakeTimerExpire(st, f, now) ==
  IF st.kind[f] = "func"
  THEN [st |-> [st EXCEPT !.started =
                   Append(@, [e |-> f, at |-> now, end |-> st.target])],
        next |-> <<>>]
  ELSE [st |-> [st EXCEPT !.c[f] = TrySend(@, now)], next |-> <<>>]

\* fakeTicker.expire: sends now without blocking; the next duration is &f.d.
fakeTickerExpire(st, f, now) ==
  [st |-> [st EXCEPT !.c[f] = TrySend(@, now)], next |-> <<st.d[f]>>]

\* e.expire(now) through the expirer interface; r is the registration the
\* invocation belongs to.  The invocation is appended to the log.
expire(st, e, now, r) ==
  LET res == IF st.kind[e] = "ticker" THEN fakeTickerExpire(st, e, now)
                                     ELSE fakeTimerExpire(st, e, now)
  IN  [st |-> [res.st EXCEPT !.log = Append(@, [e |-> e, at |-> now, reg |-> r])],
       next |-> res.next]

\* The predicate handed to sort.Search by setExpirer, at 0-based index i:
\* inner.waiters[i].expiration().After(e.expiration()).
After(ws, ex, i, e) == ex[ws[i + 1]] > ex[e]

\* sort.Search(n, f): binary search for the smallest index in [0, n) at which
\* f holds, n if there is none; on a slice f is not monotone on, whatever the
\* bisection ends at.
RECURSIVE SearchLoop(_, _, _, _, _)
SearchLoop(i, j, ws, ex, e) ==
  IF i < j
  THEN LET h == (i + j) \div 2
       IN  IF ~After(ws, ex, h, e)
           THEN SearchLoop(h + 1, j, ws, ex, e)
           ELSE SearchLoop(i, h, ws, ex, e)
  ELSE i

Search(ws, ex, e) == SearchLoop(0, Len(ws), ws, ex, e)

\* The test of the DeleteFunc callback passing one waiter short of count.
NotifyEarly(b, count) == bcount[b] <= count + 1

\* The test of the DeleteFunc callback: blocker b is notified and removed.
Notify(b, count) == bcount[b] <= count

\* setExpirer(inner, e, d).
\* The notification leaving every blocker in the registry.
DeleteFuncKeeps(bs, count) == bs

\* slices.DeleteFunc(inner.blockers, ...): the blockers that are not
\* notified stay, in order.
DeleteFunc(bs, count) == SelectSeq(bs, LAMBDA b : ~Notify(b, count))

\* setExpirer without its special case for d <= 0.
setExpirerInserts(st, e, dd) ==
  LET ex == [st.exp EXCEPT ![e] = st.time + dd]
      idx == Search(st.waiters, ex, e)
      ws == Insert(st.waiters, idx, e)
      count == Len(ws)
  IN  [st EXCEPT
         !.exp = ex,
         !.waiters = ws,
         !.reg[e] = MaxReg(st) + 1,
         !.blockers = DeleteFunc(st.blockers, count),
         !.closed = [b \in BlockerIds |->
                       IF b \in Range(st.blockers) /\ Notify(b, count)
                       THEN st.closed[b] + 1 ELSE st.closed[b]]]

\* setExpirer(inner, e, d): the state after it.
setExpirer(st, e, dd) ==
  IF dd <= 0
  THEN expire(st, e, st.time, MaxReg(st) + 1).st
  ELSE LET ex == [st.exp EXCEPT ![e] = st.time + dd]
           idx == Search(st.waiters, ex, e)
           ws == Insert(st.waiters, idx, e)
           count == Len(ws)
       IN  [st EXCEPT
              !.exp = ex,
              !.waiters = ws,
              !.reg[e] = MaxReg(st) + 1,
              !.blockers = DeleteFunc(st.blockers, count),
              !.closed = [b \in BlockerIds |->
                            IF b \in Range(st.blockers) /\ Notify(b, count)
                            THEN st.closed[b] + 1 ELSE st.closed[b]]]

\* stopExpirer reporting the expirer stopped without deleting it.
stopExpirerKeeps(st, e) ==
  [st |-> st, stopped |-> Index(st.waiters, e) # 0 - 1]

\* stopExpirer(inner, e): the state after it and the value it returns.
stopExpirer(st, e) ==
  LET idx == Index(st.waiters, e)
  IN  IF idx # 0 - 1
      THEN [st |-> [st EXCEPT !.waiters = Delete(@, idx)], stopped |-> TRUE]
      ELSE [st |-> st, stopped |-> FALSE]

\* The body of fakeTimer.Reset under the lock: the state after it and the
\* value it returns.
TimerResetInner(st, f, dd) ==
  LET r == stopExpirer(st, f)
  IN  [st |-> setExpirer(r.st, f, dd), stopped |-> r.stopped]

\* The body of fakeTicker.Reset under the lock.
TickerResetInner(st, f, dd) == setExpirer([st EXCEPT !.d[f] = dd], f, dd)

\* fakeTicker.Reset(d) as a call: it has no check of d and no panic of its
\* own, and nothing it calls panics.
TickerResetCall(st, f, dd) ==
  [st |-> TickerResetInner(st, f, dd), panic |-> FALSE]

\* NewTicker without its check of d.
NewTickerUnchecked(st, e, dd) ==
  [st |-> setExpirer([st EXCEPT !.kind[e] = "ticker", !.d[e] = dd], e, dd),
   panic |-> FALSE]

\* FakeClock.NewTicker(d) as a call: panics on d <= 0 before the ticker is
\* made and before the lock is taken; makes the ticker and sets it.
NewTickerCall(st, e, dd) ==
  IF dd <= 0
  THEN [st |-> st, panic |-> TRUE]
  ELSE [st |-> setExpirer([st EXCEPT !.kind[e] = "ticker", !.d[e] = dd], e, dd),
        panic |-> FALSE]

\* The condition of the loop of Advance.
Due(st, end) == Len(st.waiters) > 0 /\ ~(end < st.exp[st.waiters[1]])

\* The target of the Advance taken as the current time of every expiration.
ExpireAtEnd(st, w, end) == end

\* The instant used as the current time for the expiration of w.
ExpireNow(st, w, end) == st.exp[w]

\* The loop of Advance: expire the earliest waiter until the earliest
\* waiter's expiration is after end.
RECURSIVE AdvanceLoop(_, _)
AdvanceLoop(st, end) ==
  IF Due(st, end)
  THEN LET w == st.waiters[1]
           now == ExpireNow(st, w, end)
           s1 == [st EXCEPT !.waiters = Tail(@), !.time = now]
           r == expire(s1, w, now, s1.reg[w])
       IN  AdvanceLoop(IF r.next # <<>> THEN setExpirer(r.st, w, r.next[1])
                                        ELSE r.st,
                       end)
  ELSE st

\* Advance without its last assignment, inner.time = end.
AdvanceInnerNoEnd(st, dd) == AdvanceLoop(st, st.time + dd)

\* The body of FakeClock.Advance under the lock.
AdvanceInner(st, dd) ==
  LET end == st.time + dd
  IN  [AdvanceLoop([st EXCEPT !.target = end], end) EXCEPT !.time = end]

\* ------------------------------------------------------------ blockers
\* A blocker object no one refers to any more: not in the registry and not
\* the b of a caller that is waiting on it.
FreeBlocker(b) ==
  /\ b \notin Range(blockers)
  /\ \A cl \in Callers : ~(pc[cl] = "select" /\ blk[cl] = b)

\* newBlocker adding a blocker also when the queue has exactly n waiters.
NeedBlockerAtCount(st, n) == Len(st.waiters) <= n

\* The test of newBlocker: a blocker is set up only if there are not
\* already n waiters.
NeedBlocker(st, n) == Len(st.waiters) < n

\* ------------------------------------------------------------ the state
Init ==
  /\ time = 0
  /\ waiters = <<>>
  /\ blockers = <<>>
  /\ kind = [e \in Ids |-> "none"]
  /\ exp = [e \in Ids |-> 0]
  /\ tickerD = [e \in Ids |-> 0]
  /\ c = [e \in Ids |-> <<>>]
  /\ bcount = [b \in BlockerIds |-> 0]
  /\ closed = [b \in BlockerIds |-> 0]
  /\ pc = [cl \in Callers |-> "idle"]
  /\ want = [cl \in Callers |-> 0]
  /\ blk = [cl \in Callers |-> 0]
  /\ ctxDone = [cl \in Callers |-> FALSE]
  /\ err = [cl \in Callers |-> "none"]
  /\ stopped = FALSE
  /\ fired = 0
  /\ lastFire = 0
  /\ reg = [e \in Ids |-> 0]
  /\ pure = [e \in Ids |-> FALSE]
  /\ reached = [cl \in Callers |-> FALSE]
  /\ panicked = FALSE
  /\ started = <<>>
  /\ op = [cl \in Callers |-> "none"]
  /\ sig = [cl \in Callers |-> 0]
  /\ tmr = [cl \in Callers |-> 0]
  /\ dueAt = [cl \in Callers |-> 0]

\* What an operation that ends in clock state st leaves behind: the fields
\* of the clock, of the expirers and of the blockers, and the record of the
\* expire() invocations it made.
CommitClock(st) ==
  /\ time' = st.time
  /\ waiters' = st.waiters
  /\ blockers' = st.blockers
  /\ kind' = st.kind
  /\ exp' = Meaningful(st)
  /\ tickerD' = MeaningfulD(st)
  /\ c' = st.c
  /\ closed' = st.closed
  /\ fired' = Len(st.log)
  /\ lastFire' = IF st.log = <<>> THEN lastFire ELSE st.log[Len(st.log)].at
  /\ reg' = Normalise(st)
  /\ started' = st.started

\* An operation that is not a step of a ...Notify call: it leaves the
\* caller's signal channel and timer alone.
Commit(st) == CommitClock(st) /\ UNCHANGED <<op, sig, tmr, dueAt>>

\* What the operation returned, for a Stop or a Timer.Reset.
Returned(ret) == stopped' = ret /\ panicked' = FALSE

\* The operation panicked: it returned nothing.
Panicked == stopped' = FALSE /\ panicked' = TRUE

\* The queue is at the length st leaves it at: that is at least the n of a
\* caller's latest call that set up a blocker, or it is not.
Seen(st) ==
  reached' = [cl \in Callers |->
                reached[cl] \/ (blk[cl] # 0 /\ Len(st.waiters) >= want[cl])]

\* ------------------------------------------------------------ operations
\* FakeClock.NewTimer(d).
NewTimer(e, dd) ==
  /\ kind[e] = "none"
  /\ LET st == setExpirer([Inner EXCEPT !.kind[e] = "timer"], e, dd)
     IN  /\ Commit(st)
         /\ Seen(st)
         /\ UNCHANGED pure
  /\ Returned(FALSE)
  /\ UNCHANGED <<bcount, pc, want, blk, ctxDone, err>>

\* FakeClock.AfterFunc(d, f).
AfterFunc(e, dd) ==
  /\ kind[e] = "none"
  /\ LET st == setExpirer([Inner EXCEPT !.kind[e] = "func"], e, dd)
     IN  /\ Commit(st)
         /\ Seen(st)
         /\ UNCHANGED pure
  /\ Returned(FALSE)
  /\ UNCHANGED <<bcount, pc, want, blk, ctxDone, err>>

\* The afterFunc that calls fc.NewTimer(d), run by the i-th goroutine.
CallbackInner(st, i, x, dd) ==
  setExpirer([st EXCEPT !.kind[x] = "timer", !.started = Delete(@, i - 1)],
             x, dd)

\* A goroutine started by "go f.afterFunc()" runs an afterFunc that calls
\* fc.NewTimer(d): the call takes the lock of the clock, so it is a step of
\* its own, after the operation that started the goroutine has unlocked.
CallbackNewTimer(i, x, dd) ==
  /\ i \in 1 .. Len(started)
  /\ kind[x] = "none"
  /\ LET st == CallbackInner(Inner, i, x, dd)
     IN  /\ Commit(st)
         /\ Seen(st)
         /\ UNCHANGED pure
  /\ Returned(FALSE)
  /\ UNCHANGED <<bcount, pc, want, blk, ctxDone, err>>

\* A goroutine started by "go f.afterFunc()" runs an afterFunc that does
\* not use the clock.
CallbackReturn(i) ==
  /\ i \in 1 .. Len(started)
  /\ Commit([Inner EXCEPT !.started = Delete(@, i - 1)])
  /\ Returned(FALSE)
  /\ UNCHANGED <<bcount, pc, want, blk, ctxDone, err, pure, reached>>

\* FakeClock.NewTicker(d) returning a ticker.
NewTicker(e, dd) ==
  /\ kind[e] = "none"
  /\ LET r == NewTickerCall(Inner, e, dd)
     IN  /\ ~r.panic
         /\ Commit(r.st)
         /\ Seen(r.st)
         /\ pure' = [pure EXCEPT ![e] = TRUE]
  /\ Returned(FALSE)
  /\ UNCHANGED <<bcount, pc, want, blk, ctxDone, err>>

\* FakeClock.NewTicker(d) panicking.
NewTickerPanic(e, dd) ==
  /\ kind[e] = "none"
  /\ LET r == NewTickerCall(Inner, e, dd)
     IN  /\ r.panic
         /\ Commit(r.st)
         /\ Seen(r.st)
  /\ Panicked
  /\ UNCHANGED <<bcount, pc, want, blk, ctxDone, err, pure>>

\* fakeTimer.Reset(d).
TimerReset(e, dd) ==
  /\ kind[e] \in {"timer", "func"}
  /\ LET r == TimerResetInner(Inner, e, dd)
     IN  /\ Commit(r.st)
         /\ Seen(r.st)
         /\ UNCHANGED pure
         /\ Returned(r.stopped)
  /\ UNCHANGED <<bcount, pc, want, blk, ctxDone, err>>

\* fakeTimer.Stop().
TimerStop(e) ==
  /\ kind[e] \in {"timer", "func"}
  /\ LET r == stopExpirer(Inner, e)
     IN  /\ Commit(r.st)
         /\ Seen(r.st)
         /\ UNCHANGED pure
         /\ Returned(r.stopped)
  /\ UNCHANGED <<bcount, pc, want, blk, ctxDone, err>>

\* fakeTicker.Reset(d).
TickerReset(e, dd) ==
  /\ kind[e] = "ticker"
  /\ LET r == TickerResetCall(Inner, e, dd)
     IN  /\ Commit(r.st)
         /\ Seen(r.st)
         /\ pure' = [pure EXCEPT ![e] = FALSE]
         /\ IF r.panic THEN Panicked ELSE Returned(FALSE)
  /\ UNCHANGED <<bcount, pc, want, blk, ctxDone, err>>

\* fakeTicker.Stop(): the value of fc.stop is dropped.
TickerStop(e) ==
  /\ kind[e] = "ticker"
  /\ LET r == stopExpirer(Inner, e)
     IN  /\ Commit(r.st)
         /\ Seen(r.st)
         /\ pure' = [pure EXCEPT ![e] = FALSE]
  /\ Returned(FALSE)
  /\ UNCHANGED <<bcount, pc, want, blk, ctxDone, err>>

\* FakeClock.Advance(d) with d >= 0.
Advance(dd) ==
  /\ LET st == AdvanceInner(Inner, dd)
     IN  /\ Commit(st)
         /\ Seen(st)
         /\ UNCHANGED pure
  /\ Returned(FALSE)
  /\ UNCHANGED <<bcount, pc, want, blk, ctxDone, err>>

\* A consumer receives from the channel of a timer or ticker: <-t.Chan().
Recv(e) ==
  /\ c[e] # <<>>
  /\ Commit([Inner EXCEPT !.c[e] = Tail(@)])
  /\ Returned(FALSE)
  /\ UNCHANGED <<bcount, pc, want, blk, ctxDone, err, pure, reached>>

\* BlockUntilContextNotify(ctx, n, ch) up to its select: newBlocker(n), and
\* the return of nil when newBlocker gave no blocker.  done tells whether
\* ctx is cancelled already.
BlockUntilContext(cl, n, done) ==
  /\ pc[cl] = "idle"
  /\ want' = [want EXCEPT ![cl] = n]
  /\ ctxDone' = [ctxDone EXCEPT ![cl] = done]
  /\ reached' = [reached EXCEPT ![cl] = Len(waiters) >= n]
  /\ Returned(FALSE)
  /\ IF NeedBlocker(Inner, n)
     THEN \E b \in BlockerIds :
            /\ FreeBlocker(b)
            /\ \A b2 \in BlockerIds : FreeBlocker(b2) => b <= b2
            /\ Commit([Inner EXCEPT !.blockers = Append(@, b), !.closed[b] = 0])
            /\ bcount' = [bcount EXCEPT ![b] = n]
            /\ blk' = [blk EXCEPT ![cl] = b]
            /\ pc' = [pc EXCEPT ![cl] = "select"]
            /\ err' = [err EXCEPT ![cl] = "none"]
     ELSE /\ Commit(Inner)
          /\ blk' = [blk EXCEPT ![cl] = 0]
          /\ err' = [err EXCEPT ![cl] = "nil"]
          /\ UNCHANGED <<bcount, pc>>
  /\ UNCHANGED <<pure>>

\* The select of BlockUntilContextNotify takes case <-b.ch and the call
\* returns nil.
SelectNotified(cl) ==
  /\ pc[cl] = "select"
  /\ closed[blk[cl]] > 0
  /\ pc' = [pc EXCEPT ![cl] = "idle"]
  /\ err' = [err EXCEPT ![cl] = "nil"]
  /\ Commit(Inner)
  /\ Returned(FALSE)
  /\ UNCHANGED <<bcount, want, blk, ctxDone, pure, reached>>

\* The case <-ctx.Done() taking the blocker out of the registry as well.
SelectDoneUnregisters(cl) ==
  /\ pc[cl] = "select"
  /\ ctxDone[cl]
  /\ pc' = [pc EXCEPT ![cl] = "idle"]
  /\ err' = [err EXCEPT ![cl] = "ctx.Err"]
  /\ Commit([Inner EXCEPT !.blockers = SelectSeq(@, LAMBDA b : b # blk[cl])])
  /\ Returned(FALSE)
  /\ UNCHANGED <<bcount, want, blk, ctxDone, pure, reached>>

\* The select of BlockUntilContextNotify takes case <-ctx.Done() and the
\* call returns ctx.Err().
SelectDone(cl) ==
  /\ pc[cl] = "select"
  /\ ctxDone[cl]
  /\ pc' = [pc EXCEPT ![cl] = "idle"]
  /\ err' = [err EXCEPT ![cl] = "ctx.Err"]
  /\ Commit(Inner)
  /\ Returned(FALSE)
  /\ UNCHANGED <<bcount, want, blk, ctxDone, pure, reached>>

\* AfterNotify(d, ch) up to its close(ch): fc.NewTimer(d).
AfterNotifyUnregistered(cl, e, dd) ==
  /\ pc[cl] = "idle"
  /\ kind[e] = "none"
  /\ CommitClock(Inner)
  /\ op' = [op EXCEPT ![cl] = "after"]
  /\ sig' = [sig EXCEPT ![cl] = 0]
  /\ tmr' = [tmr EXCEPT ![cl] = e]
  /\ dueAt' = [dueAt EXCEPT ![cl] = time + dd]
  /\ pc' = [pc EXCEPT ![cl] = "close"]
  /\ Returned(FALSE)
  /\ UNCHANGED <<bcount, want, blk, ctxDone, err, pure, reached>>

\* The first statement of AfterNotify, and of SleepNotify through After and
\* AfterNotify: c := fc.NewTimer(d).Chan(), on a ch that is not closed.
NotifyNewTimer(cl, e, dd, which) ==
  /\ pc[cl] = "idle"
  /\ kind[e] = "none"
  /\ LET st == setExpirer([Inner EXCEPT !.kind[e] = "timer"], e, dd)
     IN  CommitClock(st) /\ Seen(st)
  /\ op' = [op EXCEPT ![cl] = which]
  /\ sig' = [sig EXCEPT ![cl] = 0]
  /\ tmr' = [tmr EXCEPT ![cl] = e]
  /\ dueAt' = [dueAt EXCEPT ![cl] = time + dd]
  /\ pc' = [pc EXCEPT ![cl] = "close"]
  /\ Returned(FALSE)
  /\ UNCHANGED <<bcount, want, blk, ctxDone, err, pure>>

\* AfterNotify(d, ch) up to its close(ch).
AfterNotify(cl, e, dd) == NotifyNewTimer(cl, e, dd, "after")

\* SleepNotify(d, ch) up to its close(ch): afterCh := fc.After(d).
SleepNotify(cl, e, dd) == NotifyNewTimer(cl, e, dd, "sleep")

\* BlockUntilContextNotify(ctx, n, ch) up to its close(ch): b :=
\* fc.newBlocker(n), on a ch that is not closed and a ctx that is not done.
BlockUntilContextNotify(cl, n) ==
  /\ pc[cl] = "idle"
  /\ want' = [want EXCEPT ![cl] = n]
  /\ ctxDone' = [ctxDone EXCEPT ![cl] = FALSE]
  /\ reached' = [reached EXCEPT ![cl] = Len(waiters) >= n]
  /\ op' = [op EXCEPT ![cl] = "block"]
  /\ sig' = [sig EXCEPT ![cl] = 0]
  /\ tmr' = [tmr EXCEPT ![cl] = 0]
  /\ dueAt' = [dueAt EXCEPT ![cl] = 0]
  /\ pc' = [pc EXCEPT ![cl] = "close"]
  /\ err' = [err EXCEPT ![cl] = "none"]
  /\ Returned(FALSE)
  /\ IF NeedBlocker(Inner, n)
     THEN \E b \in BlockerIds :
            /\ FreeBlocker(b)
            /\ \A b2 \in BlockerIds : FreeBlocker(b2) => b <= b2
            /\ CommitClock([Inner EXCEPT !.blockers = Append(@, b), !.closed[b] = 0])
            /\ bcount' = [bcount EXCEPT ![b] = n]
            /\ blk' = [blk EXCEPT ![cl] = b]
     ELSE /\ CommitClock(Inner)
          /\ blk' = [blk EXCEPT ![cl] = 0]
          /\ UNCHANGED bcount
  /\ UNCHANGED pure

\* close(ch) of AfterNotify, SleepNotify and BlockUntilContextNotify, and
\* what follows without blocking: AfterNotify returns the channel,
\* SleepNotify goes to its receive, BlockUntilContextNotify returns nil if
\* b is nil and goes to its select if not.
CloseSignal(cl) ==
  /\ pc[cl] = "close"
  /\ sig' = [sig EXCEPT ![cl] = @ + 1]
  /\ pc' = [pc EXCEPT ![cl] = CASE op[cl] = "after" -> "idle"
                                [] op[cl] = "sleep" -> "recv"
                                [] op[cl] = "block" ->
                                     IF blk[cl] = 0 THEN "idle" ELSE "select"]
  /\ err' = [err EXCEPT ![cl] = IF op[cl] = "block" /\ blk[cl] = 0
                                THEN "nil" ELSE @]
  /\ CommitClock(Inner)
  /\ Returned(FALSE)
  /\ UNCHANGED <<op, tmr, dueAt, bcount, want, blk, ctxDone, pure, reached>>

\* <-afterCh of SleepNotify, and its return.
SleepRecv(cl) ==
  /\ pc[cl] = "recv"
  /\ c[tmr[cl]] # <<>>
  /\ CommitClock([Inner EXCEPT !.c[tmr[cl]] = Tail(@)])
  /\ pc' = [pc EXCEPT ![cl] = "idle"]
  /\ Returned(FALSE)
  /\ UNCHANGED <<op, sig, tmr, dueAt, bcount, want, blk, ctxDone, err, pure, reached>>

\* The owner of the context cancels it while the call is in its select.
Cancel(cl) ==
  /\ pc[cl] = "select"
  /\ ~ctxDone[cl]
  /\ ctxDone' = [ctxDone EXCEPT ![cl] = TRUE]
  /\ Commit(Inner)
  /\ Returned(FALSE)
  /\ UNCHANGED <<bcount, pc, want, blk, err, pure, reached>>

\* The expirers of S that can be constructed next: a new object takes the
\* first pointer of S that is not in use.
Fresh(S) ==
  {e \in S : kind[e] = "none" /\ \A f \in S : f < e => kind[f] # "none"}

\* The operations on the clock and on its timers and tickers, with the
\* expirers of S being timers or tickers as the environment chooses.
NextClock(S) ==
  \/ \E e \in Fresh(S), dd \in Durs : NewTimer(e, dd)
  \/ \E e \in Fresh(S), dd \in Durs : NewTicker(e, dd)
  \/ \E e \in Fresh(S), dd \in Durs : NewTickerPanic(e, dd)
  \/ \E e \in S, dd \in Durs : TimerReset(e, dd)
  \/ \E e \in S : TimerStop(e)
  \/ \E e \in S, dd \in Durs : Len(waiters) < MaxQueue(S) /\ TickerReset(e, dd)
  \/ \E e \in S : TickerStop(e)
  \/ \E dd \in AdvDurs : time + dd <= MaxTime /\ Advance(dd)
  \/ \E e \in S : Recv(e)

\* A clock with two expirers.
Pair == {1, 2}

Next == NextClock(Pair)

Spec == Init /\ [][Next]_vars

\* A clock with callers of BlockUntilContext next to the goroutines that
\* make, stop and reset timers and tickers and advance the clock.
NextBlock ==
  \/ \E e \in Fresh(Pair), dd \in 1 .. MaxDur : NewTimer(e, dd)
  \/ \E e \in Fresh(Pair), dd \in 1 .. MaxDur : NewTicker(e, dd)
  \/ \E e \in Fresh(Pair) : NewTickerPanic(e, 0)
  \/ \E e \in Pair : TimerStop(e)
  \/ \E e \in Pair : TickerStop(e)
  \/ \E dd \in 1 .. MaxDur : time + dd <= MaxTime /\ Advance(dd)
  \/ \E cl \in Callers, n \in Counts, done \in BOOLEAN : BlockUntilContext(cl, n, done)
  \/ \E cl \in Callers : SelectNotified(cl)
  \/ \E cl \in Callers : SelectDone(cl)
  \/ \E cl \in Callers : Cancel(cl)

SpecBlock == Init /\ [][NextBlock]_vars

\* A goroutine in a select that has a ready case is run by the scheduler
\* and takes one: the caller's select is weakly fair.
FairBlock ==
  SpecBlock /\ \A cl \in Callers : WF_vars(SelectDone(cl) \/ SelectNotified(cl))

\* The expirer an afterFunc makes.
Nested == Ids \ Pair

\* The goroutines started and not yet run are at most as many as the
\* timers the afterFuncs make.
MaxStarted == Cardinality(Nested)

\* The durations of the timers: zero stands for the non-positive ones.
FuncDurs == 0 .. MaxDur

\* A clock with two timers, with or without an afterFunc, the goroutines
\* their afterFuncs run in, and a caller of BlockUntil that waits for both
\* timers.
NextFunc ==
  \/ \E e \in Fresh(Pair), dd \in FuncDurs : NewTimer(e, dd)
  \/ \E e \in Fresh(Pair), dd \in FuncDurs :
       AfterFunc(e, dd) /\ Len(started') <= MaxStarted
  \/ \E e \in Pair, dd \in FuncDurs :
       TimerReset(e, dd) /\ Len(started') <= MaxStarted
  \/ \E e \in Pair : TimerStop(e)
  \/ \E dd \in AdvDurs :
       time + dd <= MaxTime /\ Advance(dd) /\ Len(started') <= MaxStarted
  \/ \E e \in Ids : Recv(e)
  \/ \E i \in 1 .. MaxStarted, x \in Nested, dd \in FuncDurs : CallbackNewTimer(i, x, dd)
  \/ \E i \in 1 .. MaxStarted : CallbackReturn(i)
  \/ \E cl \in Callers : BlockUntilContext(cl, Cardinality(Pair), FALSE)
  \/ \E cl \in Callers : SelectNotified(cl)

SpecFunc == Init /\ [][NextFunc]_vars

\* A clock with a caller of AfterNotify, SleepNotify and
\* BlockUntilContextNotify next to the goroutines that make timers, receive
\* from the channels they and AfterNotify return, and advance the clock.
NextNotify ==
  \/ \E e \in Fresh(Ids), dd \in 1 .. MaxDur : NewTimer(e, dd)
  \/ \E dd \in 1 .. MaxDur : time + dd <= MaxTime /\ Advance(dd)
  \/ \E e \in Ids : (\A cl \in Callers : op[cl] = "sleep" => tmr[cl] # e) /\ Recv(e)
  \/ \E cl \in Callers, e \in Fresh(Ids), dd \in FuncDurs : AfterNotify(cl, e, dd)
  \/ \E cl \in Callers, e \in Fresh(Ids), dd \in FuncDurs : SleepNotify(cl, e, dd)
  \/ \E cl \in Callers, n \in Counts : BlockUntilContextNotify(cl, n)
  \/ \E cl \in Callers : CloseSignal(cl)
  \/ \E cl \in Callers : SleepRecv(cl)
  \/ \E cl \in Callers : SelectNotified(cl)

SpecNotify == Init /\ [][NextNotify]_vars

\* A goroutine that has made its registration is not blocked before its
\* close(ch): the scheduler runs it.
FairNotify == SpecNotify /\ \A cl \in Callers : WF_vars(CloseSignal(cl))

\* ---------------------------------------------------------------- claims
\* The claims are stated of every reachable state and every argument: what
\* the operation's body makes of the state is what the action commits.

\* The instants of the expire() invocations of a log, in order.
Instants(lg) == [i \in 1 .. Len(lg) |-> lg[i].at]

\* The expirers that are timers, tickers, waiters.
TimerSet == {e \in Ids : kind[e] = "timer"}
FuncSet == {e \in Ids : kind[e] = "func"}
TickerSet == {e \in Ids : kind[e] = "ticker"}
Waiting == Range(waiters)

\* How many entries of the queue ws are expirer e.
Entries(ws, e) == Cardinality({i \in 1 .. Len(ws) : ws[i] = e})

\* C1: when Advance(d) returns, the current time is the time before the
\* call plus d, however many timers and tickers expired during the call.
C1_AdvanceLandsOnTarget ==
  \A dd \in AdvDurs : AdvanceInner(Inner, dd).time = time + dd

\* An Advance has expired two waiters or more, the last of them before the
\* instant the call ended at.
C1_Witness == fired >= 2 /\ lastFire < time

\* In order after an invocation at instant prev: instants do not decrease,
\* and of two invocations at one instant the one registered first is first.
InOrder(prev, lg) ==
  /\ lg # <<>> => prev <= lg[1].at
  /\ \A i \in 1 .. (Len(lg) - 1) :
       /\ lg[i].at <= lg[i + 1].at
       /\ lg[i].at = lg[i + 1].at => lg[i].reg < lg[i + 1].reg

\* C2: the expire() invocations are in non-decreasing order of expiration
\* instant, inside one Advance and across operations, and two expirers of
\* one instant expire in the order they were registered in.
C2_ExpireInOrder ==
  /\ \A dd \in AdvDurs : InOrder(lastFire, AdvanceInner(Inner, dd).log)
  /\ \A e \in Ids, dd \in Durs : InOrder(lastFire, setExpirer(Inner, e, dd).log)

\* C3: what Advance puts on the channel of a timer or ticker is the
\* expirer's own expiration instant, not the target of the Advance; with
\* timer b due before timer a, an Advance that ends between the two puts
\* b's instant on b's channel and nothing on a's, and a further Advance
\* past a's instant puts a's instant on a's channel.
C3_DeliversOwnInstant ==
  /\ \A dd \in AdvDurs, e \in Ids :
       LET st == AdvanceInner(Inner, dd)
       IN  st.c[e] # c[e] => e \in Waiting /\ st.c[e] = <<exp[e]>>
  /\ \A a \in TimerSet, b \in TimerSet, dd \in AdvDurs, dd2 \in AdvDurs :
       ( /\ waiters = <<b, a>> /\ c[a] = <<>> /\ c[b] = <<>>
         /\ exp[b] <= time + dd /\ time + dd < exp[a]
         /\ exp[a] <= time + dd + dd2 )
       => LET s1 == AdvanceInner(Inner, dd)
              s2 == AdvanceInner(s1, dd2)
          IN  /\ s1.c[b] = <<exp[b]>> /\ s1.c[a] = <<>>
              /\ s2.c[a] = <<exp[a]>> /\ s2.c[b] = <<exp[b]>>

\* Timer 1 was registered before timer 2 and is due after it; an Advance
\* has ended between the two instants: timer 2's channel holds its instant,
\* which is not the time the Advance ended at, and timer 1 still waits.
C3_Witness ==
  /\ kind[1] = "timer" /\ kind[2] = "timer"
  /\ fired = 1 /\ lastFire < time
  /\ c[2] = <<lastFire>> /\ c[1] = <<>>
  /\ waiters = <<1>> /\ exp[1] > time

\* C4: when Advance(d) returns, every waiter whose expiration instant was
\* at or before the time of the call plus d has expired during the call, and
\* no waiter is left whose expiration instant is at or before the new time.
C4_AllDueExpired ==
  \A dd \in AdvDurs :
    LET st == AdvanceInner(Inner, dd)
    IN  /\ \A e \in Waiting : exp[e] <= time + dd => Fires(st.log, e) >= 1
        /\ \A e \in Range(st.waiters) : st.exp[e] > st.time

\* What the operations that are not a Reset of expirer e can make of the
\* state: Advance, the construction of another expirer, a Reset of another
\* expirer, and Stop of any.
OtherResults(e) ==
  {AdvanceInner(Inner, dd) : dd \in AdvDurs}
    \cup {setExpirer([Inner EXCEPT !.kind[x[1]] = "timer"], x[1], x[2]) :
            x \in {f \in Ids : kind[f] = "none"} \X Durs}
    \cup {TickerResetInner([Inner EXCEPT !.kind[x[1]] = "ticker"], x[1], x[2]) :
            x \in {f \in Ids : kind[f] = "none"} \X (1 .. MaxDur)}
    \cup {TimerResetInner(Inner, x[1], x[2]).st : x \in (TimerSet \ {e}) \X Durs}
    \cup {TickerResetInner(Inner, x[1], x[2]) : x \in (TickerSet \ {e}) \X Durs}
    \cup {stopExpirer(Inner, f).st : f \in TimerSet \cup TickerSet}

\* C5: Stop on a timer that is in the queue returns true and takes it out;
\* a timer that is not in the queue is expired by no Advance, gets nothing
\* on its channel and is put back by nothing but its own Reset, and Stop on
\* it returns false and leaves the clock as it is.
C5_StoppedTimerStaysSilent ==
  \A e \in TimerSet :
    /\ e \in Waiting =>
         LET r == stopExpirer(Inner, e)
         IN  /\ r.stopped
             /\ e \notin Range(r.st.waiters)
             /\ r.st.c = c /\ r.st.log = <<>>
    /\ e \notin Waiting =>
         /\ stopExpirer(Inner, e) = [st |-> Inner, stopped |-> FALSE]
         /\ \A st \in OtherResults(e) :
              /\ e \notin Range(st.waiters)
              /\ Fires(st.log, e) = 0
              /\ st.c[e] = c[e]

\* A Stop has just returned true: no timer waits, and the stopped timer's
\* channel is empty although time has passed.
C5_Witness ==
  /\ stopped /\ fired = 0
  /\ kind[1] = "timer" /\ TimerSet \cap Waiting = {}
  /\ c[1] = <<>> /\ time > 0

\* The instants in (from, to] at which a ticker of period p whose next
\* expiration instant is next expires.
Schedule(next, p, from, to) ==
  {t \in (from + 1) .. to : t >= next /\ (t - next) % p = 0}

\* The instants expirer k expired at, in order.
InstantsOf(lg, k) == Instants(SelectSeq(lg, LAMBDA r : r.e = k))

\* C6: a ticker of period p that was never reset or stopped expires exactly
\* once at each of the instants t+p, t+2p, ... up to the current time, t
\* being the time it was created at, however the time is split in Advance
\* calls; an Advance(p) with its channel drained delivers exactly one tick.
C6_TickerOnSchedule ==
  \A k \in TickerSet :
    pure[k] =>
      /\ Entries(waiters, k) = 1
      /\ time < exp[k] /\ exp[k] <= time + tickerD[k]
      /\ \A dd \in AdvDurs :
           LET at == InstantsOf(AdvanceInner(Inner, dd).log, k)
               due == Schedule(exp[k], tickerD[k], time, time + dd)
           IN  /\ Len(at) = Cardinality(due)
               /\ Range(at) = due
      /\ c[k] = <<>> =>
           LET st == AdvanceInner(Inner, tickerD[k])
           IN  Fires(st.log, k) = 1 /\ st.c[k] = <<exp[k]>>

\* C9: Timer.Reset(d) with d > 0 leaves the timer once in the queue at
\* current time + d in the one step it takes under the lock, and returns
\* true exactly when the timer was in the queue; a timer that has fired
\* (the value is in its channel) and is Reset(d) is expired exactly once,
\* at that instant, by the Advance(d) that follows.
C9_TimerResetRearms ==
  \A e \in TimerSet, dd \in 1 .. MaxDur :
    LET r == TimerResetInner(Inner, e, dd)
        st == AdvanceInner(r.st, dd)
    IN  /\ r.stopped = (e \in Waiting)
        /\ Entries(r.st.waiters, e) = 1
        /\ r.st.exp[e] = time + dd
        /\ r.st.log = <<>>
        /\ (e \notin Waiting /\ c[e] # <<>>) =>
             InstantsOf(st.log, e) = <<time + dd>>

C7_BlockUntilWaitsForCount ==
  \A cl \in Callers :
    /\ (pc[cl] = "idle" /\ err[cl] = "nil") => reached[cl]
    /\ pc[cl] = "select" =>
         /\ blk[cl] # 0
         /\ IF reached[cl]
            THEN blk[cl] \notin Range(blockers) /\ closed[blk[cl]] = 1
            ELSE /\ blk[cl] \in Range(blockers) /\ closed[blk[cl]] = 0
                 /\ Len(waiters) < want[cl]
    /\ \A b \in Range(blockers) : Len(waiters) < bcount[b]

\* A call BlockUntilContext(ctx, 2) has waited on a blocker and returned nil
\* with its context not cancelled.
C7_Witness ==
  \E cl \in Callers :
    /\ pc[cl] = "idle" /\ err[cl] = "nil" /\ ~ctxDone[cl]
    /\ want[cl] = 2 /\ blk[cl] # 0 /\ closed[blk[cl]] = 1

\* What C8 says of each state.
CancelledState(cl) ==
  /\ (pc[cl] = "select" /\ ctxDone[cl] /\ ~reached[cl]) =>
       closed[blk[cl]] = 0 /\ blk[cl] \in Range(blockers)
  /\ (pc[cl] = "idle" /\ err[cl] = "ctx.Err") =>
       /\ ctxDone[cl] /\ blk[cl] # 0
       /\ IF reached[cl]
          THEN blk[cl] \notin Range(blockers) /\ closed[blk[cl]] = 1
          ELSE /\ blk[cl] \in Range(blockers) /\ closed[blk[cl]] = 0
               /\ bcount[blk[cl]] = want[cl] /\ Len(waiters) < want[cl]

\* C8: a caller whose context is cancelled while the queue has stayed below
\* n finds only the case of the context ready, and the call does return;
\* the blocker of a call that returned the context's error is still in the
\* registry, unclosed, as long as no insertion has brought the queue to n,
\* and is closed once and out of the registry after one has.
C8_CancelledReturnsCtxErr ==
  /\ [](\A cl \in Callers : CancelledState(cl))
  /\ \A cl \in Callers : (pc[cl] = "select" /\ ctxDone[cl]) ~> (pc[cl] = "idle")

\* A call BlockUntilContext(ctx, 2) has returned the context's error with
\* one waiter in the queue, and its blocker is still registered.
C8_Witness ==
  \E cl \in Callers :
    /\ pc[cl] = "idle" /\ err[cl] = "ctx.Err" /\ ~reached[cl]
    /\ want[cl] = 2 /\ Len(waiters) = 1 /\ blk[cl] \in Range(blockers)

\* C11: Ticker.Reset(d) with d <= 0 panics, and does not expire the ticker,
\* change its period or change the waiter queue.
C11_TickerResetRejectsNonPositive ==
  \A k \in TickerSet, dd \in Durs :
    dd <= 0 =>
      LET r == TickerResetCall(Inner, k, dd)
      IN  /\ r.panic
          /\ r.st.log = <<>> /\ r.st.c = c
          /\ r.st.d = tickerD
          /\ r.st.waiters = waiters

\* C12: NewTicker(d) with d <= 0 panics: a step in which it does leaves the
\* time, the waiter queue, the blockers and every expirer as they were, and
\* no NewTicker(d) with d <= 0 does anything else than panic.
C12_NewTickerRejectsNonPositive ==
  /\ [][panicked' =>
          UNCHANGED <<time, waiters, blockers, closed, kind, exp, tickerD, c,
                      started>>]_vars
  /\ [](\A e \in Ids, dd \in Durs :
          (kind[e] = "none" /\ dd <= 0) =>
            LET r == NewTickerCall(Inner, e, dd)
            IN  r.panic /\ r.st = Inner)

\* A NewTicker has panicked on a clock that has a waiter and a blocker.
C12_Witness == panicked /\ waiters # <<>> /\ blockers # <<>>

\* What a call that fires timer e at once leaves of the clock: the time,
\* the blockers and their channels as they were, e not in the queue and no
\* waiter more than before; a timer with an afterFunc has it started.
FiredAtOnce(st, e) ==
  /\ st.time = time
  /\ st.blockers = blockers /\ st.closed = closed
  /\ e \notin Range(st.waiters)
  /\ Len(st.waiters) <= Len(waiters)
  /\ Fires(st.log, e) = 1 /\ st.log[1].at = time
  /\ IF st.kind[e] = "func"
     THEN st.started = Append(started, [e |-> e, at |-> time, end |-> time])
     ELSE st.started = started

\* The states NewTimer(d), AfterFunc(d, f) and Timer.Reset(d) with d <= 0
\* lead to, each with its timer.
AtOnce ==
  {[e |-> x[1], st |-> setExpirer([Inner EXCEPT !.kind[x[1]] = x[3]], x[1], x[2])] :
     x \in {f \in Ids : kind[f] = "none"} \X {dd \in Durs : dd <= 0}
             \X {"timer", "func"}}
    \cup {[e |-> x[1], st |-> TimerResetInner(Inner, x[1], x[2]).st] :
            x \in (TimerSet \cup FuncSet) \X {dd \in Durs : dd <= 0}}

\* C13 as stated: a timer made or reset with d <= 0 fires at once, its
\* channel holds the current time (or its afterFunc is started), it is not
\* in the queue, the queue has not grown and no blocker is notified.
C13_NonPositiveFiresAtOnce ==
  \A r \in AtOnce :
    /\ FiredAtOnce(r.st, r.e)
    /\ r.st.kind[r.e] = "timer" => r.st.c[r.e] = <<time>>

\* C13, amended: as above, but the channel holds the current time if it was
\* empty, and still holds the value it held if it was not.
C13_NonPositiveFiresAtOnceKeepsOlder ==
  \A r \in AtOnce :
    /\ FiredAtOnce(r.st, r.e)
    /\ r.st.kind[r.e] = "timer" =>
         r.st.c[r.e] = IF c[r.e] = <<>> THEN <<time>> ELSE c[r.e]

\* A timer was reset with d <= 0 while its channel held an older instant
\* and a blocker was registered.
C13_Witness ==
  \E e \in TimerSet :
    /\ fired = 1 /\ lastFire = time /\ e \notin Waiting
    /\ c[e] # <<>> /\ c[e][1] < time
    /\ blockers # <<>>

\* The states the operations on the clock, its timers and its tickers lead
\* to from the current one.
Results ==
  {AdvanceInner(Inner, dd) : dd \in AdvDurs}
    \cup {setExpirer([Inner EXCEPT !.kind[x[1]] = "timer"], x[1], x[2]) :
            x \in {f \in Ids : kind[f] = "none"} \X Durs}
    \cup {NewTickerCall(Inner, x[1], x[2]).st :
            x \in {f \in Ids : kind[f] = "none"} \X Durs}
    \cup {TimerResetInner(Inner, x[1], x[2]).st : x \in TimerSet \X Durs}
    \cup {TickerResetInner(Inner, x[1], x[2]) : x \in TickerSet \X Durs}
    \cup {stopExpirer(Inner, f).st : f \in TimerSet \cup TickerSet}

\* C14: a channel holds at most one value; an operation that fires an
\* expirer whose channel holds a value leaves that value there and drops
\* the new instants, and puts the first new instant in an empty channel;
\* Advance ends at its target with the same expirations and the same queue
\* whether the channels were full or empty.
C14_ChannelKeepsOldest ==
  /\ \A e \in Ids : Len(c[e]) <= ChanCap
  /\ \A st \in Results, e \in Ids :
       st.c[e] = IF c[e] # <<>> THEN c[e]
                 ELSE IF Fires(st.log, e) = 0 THEN <<>>
                 ELSE <<InstantsOf(st.log, e)[1]>>
  /\ \A dd \in AdvDurs :
       LET full == AdvanceInner(Inner, dd)
           empty == AdvanceInner([Inner EXCEPT !.c = [e \in Ids |-> <<>>]], dd)
       IN  /\ full.time = time + dd
           /\ full.log = empty.log
           /\ full.waiters = empty.waiters /\ full.exp = empty.exp

\* An Advance fired a ticker more than once with no consumer: its channel
\* holds an instant older than the last one it fired at.
C14_Witness ==
  \E k \in TickerSet :
    /\ \A e \in Ids \ {k} : kind[e] = "none"
    /\ fired >= 2
    /\ c[k] # <<>> /\ c[k][1] < lastFire

\* The registration of the caller's latest ...Notify call is committed.  A
\* timer of a positive duration that is not due yet is in the queue at its
\* instant: a BlockUntil(1) counts it and an Advance to that instant or past
\* it expires it there.  A blocker is in the registry with its channel open
\* while the queue has not reached its count, an insertion that reaches the
\* count closes it, and it is nil or closed and removed once the queue has
\* reached the count.
Registered(cl) ==
  CASE op[cl] \in {"after", "sleep"} ->
         time < dueAt[cl] =>
           /\ tmr[cl] \in Waiting /\ exp[tmr[cl]] = dueAt[cl]
           /\ ~NeedBlocker(Inner, 1)
           /\ \A dd \in AdvDurs :
                time + dd >= dueAt[cl] =>
                  InstantsOf(AdvanceInner(Inner, dd).log, tmr[cl]) = <<dueAt[cl]>>
    [] op[cl] = "block" ->
         IF reached[cl]
         THEN blk[cl] # 0 => blk[cl] \notin Range(blockers) /\ closed[blk[cl]] = 1
         ELSE /\ blk[cl] \in Range(blockers) /\ closed[blk[cl]] = 0
              /\ \A e \in Fresh(Ids), dd \in 1 .. MaxDur :
                   LET st == setExpirer([Inner EXCEPT !.kind[e] = "timer"], e, dd)
                   IN  Len(st.waiters) >= want[cl] =>
                         blk[cl] \notin Range(st.blockers) /\ st.closed[blk[cl]] = 1
    [] OTHER -> TRUE

\* C15: the ch of AfterNotify, SleepNotify and BlockUntilContextNotify is
\* closed once: not before the call's close(ch), always after it and never
\* twice, and the call gets to its close(ch); whenever ch is closed the
\* registration of the call is committed.
C15_SignalAfterRegistration ==
  /\ [](\A cl \in Callers :
          /\ sig[cl] = IF pc[cl] = "close" \/ op[cl] = "none" THEN 0 ELSE 1
          /\ sig[cl] = 1 => Registered(cl))
  /\ \A cl \in Callers : (pc[cl] = "close") ~> (sig[cl] = 1)

\* SleepNotify has closed its ch and waits for its timer, which is in the
\* queue with another timer.
C15_Witness ==
  \E cl \in Callers :
    /\ op[cl] = "sleep" /\ pc[cl] = "recv" /\ sig[cl] = 1
    /\ time < dueAt[cl] /\ Len(waiters) > 1

Sorted(ws, ex) == \A i, j \in 1 .. Len(ws) : i < j => ex[ws[i]] <= ex[ws[j]]

\* The position (from 1) of the last entry of e in ws.
LastEntry(ws, e) ==
  CHOOSE i \in 1 .. Len(ws) : ws[i] = e /\ \A j \in (i + 1) .. Len(ws) : ws[j] # e

\* The states the insertions of an expirer with a positive duration lead
\* to from the current one, each with the expirer inserted.
Insertions ==
  {[e |-> x[1], st |-> setExpirer([Inner EXCEPT !.kind[x[1]] = "timer"], x[1], x[2])] :
     x \in {f \in Ids : kind[f] = "none"} \X (1 .. MaxDur)}
    \cup {[e |-> x[1], st |-> NewTickerCall(Inner, x[1], x[2]).st] :
            x \in {f \in Ids : kind[f] = "none"} \X (1 .. MaxDur)}
    \cup {[e |-> x[1], st |-> TimerResetInner(Inner, x[1], x[2]).st] :
            x \in TimerSet \X (1 .. MaxDur)}
    \cup {[e |-> x[1], st |-> TickerResetInner(Inner, x[1], x[2])] :
            x \in TickerSet \X (1 .. MaxDur)}

\* C17: the waiter queue is sorted ascending by expiration instant, and an
\* insertion puts the new entry behind every entry whose instant is equal
\* or earlier and in front of every entry whose instant is later.
C17_QueueSorted ==
  /\ Sorted(waiters, exp)
  /\ \A r \in Insertions :
       LET ws == r.st.waiters
           at == LastEntry(ws, r.e)
       IN  \A j \in 1 .. Len(ws) :
             ws[j] # r.e => (j < at <=> r.st.exp[ws[j]] <= r.st.exp[r.e])

\* The values inner.time takes in Advance(d) from state st, in order: the
\* one it has, the instant of each expirer the loop takes, and the target.
TimeAssigned(st, dd) ==
  <<st.time>> \o Instants(AdvanceInner(st, dd).log) \o <<AdvanceInner(st, dd).time>>

\* C19: the virtual time never decreases: no operation ends at an earlier
\* time than it began at, and inside Advance(d) with d >= 0 every
\* assignment to the time is at or after the one before it.
C19_TimeNeverDecreases ==
  /\ \A st \in Results : st.time >= time
  /\ \A dd \in AdvDurs :
       LET ts == TimeAssigned(Inner, dd)
       IN  \A i \in 1 .. (Len(ts) - 1) : ts[i] <= ts[i + 1]

\* C18: the channel of a blocker is closed at most once, and the step that
\* closes it takes the blocker out of the registry: no blocker in the
\* registry has its channel closed, no operation closes the channel of a
\* blocker that is not in the registry or leaves in the registry one it has
\* closed, also when the blocker's caller has returned with ctx.Err().
C18_BlockerClosedOnce ==
  /\ \A b \in BlockerIds :
       /\ closed[b] <= 1
       /\ b \in Range(blockers) => closed[b] = 0 /\ Entries(blockers, b) = 1
  /\ \A st \in Results, b \in BlockerIds :
       /\ st.closed[b] <= 1
       /\ st.closed[b] # closed[b] <=>
            (b \in Range(blockers) /\ b \notin Range(st.blockers))

\* The blocker of a call that returned ctx.Err() was closed and removed by
\* a later insertion.
C18_Witness ==
  \E cl \in Callers :
    /\ pc[cl] = "idle" /\ err[cl] = "ctx.Err"
    /\ blk[cl] # 0 /\ closed[blk[cl]] = 1 /\ blk[cl] \notin Range(blockers)

\* C20: every blocker in the registry has a count above the length of the
\* waiter queue, in every state between operations and in the state every
\* operation on timers, tickers and the clock leads to.
C20_RegisteredBlockersNeedMore ==
  /\ \A b \in Range(blockers) : bcount[b] > Len(waiters)
  /\ \A st \in Results : \A b \in Range(st.blockers) : bcount[b] > Len(st.waiters)

\* A blocker is registered while the queue holds a waiter, after a Stop
\* took a waiter out of the queue.
C20_Witness == blockers # <<>> /\ waiters # <<>> /\ stopped
====
